---- MODULE Spec2Model ----
(***************************************************************************)
(* Model of social/backends/oauth.py: extra_data of OAuthAuth, the OAuth1  *)
(* three-legged flow (BaseOAuth1) and the OAuth2 authorization-code flow   *)
(* (BaseOAuth2) over a session store shared by the backends of one browser *)
(* session.                                                                *)
(*                                                                         *)
(* Python values are modelled as follows.                                  *)
(*   dict            a function whose domain is the set of its keys        *)
(*   list            a sequence                                            *)
(*   None            the reserved string None (no input domain holds it)   *)
(*   query string    a sequence of <<key, value>> pairs, in order          *)
(*   exception       the name of its class, "none" when nothing is raised  *)
(* External collaborators (provider, transport, authenticator) answer      *)
(* nondeterministically from small sets.                                   *)
(*                                                                         *)
(* Left out, as data of the provider configuration that no operation       *)
(* modelled here branches on: the scope argument, auth_extra_arguments and *)
(* request_token_extra_arguments, the key and secret, the callback's code  *)
(* and oauth_verifier, and the unquote of the encoded OAuth2 query.        *)
(* Pending OAuth1 tokens are the strings auth_url stores                   *)
(* (response.content); the dict entries that auth_complete also accepts    *)
(* are never stored by this code.                                          *)
(***************************************************************************)
EXTENDS Integers, Sequences, FiniteSets, TLC

VARIABLES
    session,    \* strategy session: key -> stored value
    conf,       \* OAuth2 backend name -> class attributes STATE_PARAMETER, REDIRECT_STATE
    last,       \* the most recent call: its inputs, what it raised or returned, its effects
    attempts    \* OAuth1 flow attempts (browser tabs) sharing the session

vars == <<session, conf, last, attempts>>

-----------------------------------------------------------------------------
(* Bounds and input domains *)

\* most pending OAuth1 tokens held in the session, all backends together
MaxPending == 3
\* number of concurrent OAuth1 flow attempts
MaxAttempts == 3
\* most entries of EXTRA_DATA, class attribute and setting together
MaxEntries == 2

None == "<None>"
\* a response value that is false without being a string: 0, False, []
Falsy == "<0>"
EmptyDict == <<>>

OAuth1Backends == {"twitter", "flickr"}
OAuth2Backends == {"github", "custom"}

\* token ids a provider may issue; "no-token" is the default that
\* auth_complete substitutes for a missing callback token
TokenIds == {"a", "b", "no-token"}
AttemptIds == TokenIds \cup {"c"}
Secrets == {"s", "t"}

\* values state_token() may return
StateTokens == {"s1", "s2"}

-----------------------------------------------------------------------------
(* Python helpers *)

Truthy(v) == v # None /\ v # "" /\ v # Falsy

\* d.get(k, default)
Get(d, k, default) == IF k \in DOMAIN d THEN d[k] ELSE default

\* d[k] = v
Put(d, k, v) == [x \in DOMAIN d \cup {k} |-> IF x = k THEN v ELSE d[x]]

\* a or b
PyOr(a, b) == IF Truthy(a) THEN a ELSE b

Range(s) == {s[i] : i \in DOMAIN s}

\* every dict whose keys are a subset of DOMAIN vals, key k mapped into vals[k]
Dicts(vals) ==
    UNION { {f \in [S -> UNION {vals[k] : k \in DOMAIN vals}] :
                \A k \in S : f[k] \in vals[k]} : S \in SUBSET DOMAIN vals }

\* list(s) of a Python set s: the elements once each, in an order the
\* interpreter chooses
ListsOfSet(S) ==
    {l \in [1..Cardinality(S) -> S] : \A x \in S : \E i \in DOMAIN l : l[i] = x}

\* social.utils.parse_qs: the first non-blank value of every key
parse_qs(qs) ==
    LET filled == {i \in DOMAIN qs : qs[i][2] # ""}
        keys == {qs[i][1] : i \in filled}
        first(k) == CHOOSE i \in filled :
                        qs[i][1] = k /\ \A j \in filled : qs[j][1] = k => i <= j
    IN  [k \in keys |-> qs[first(k)][2]]

\* strategy.session_get(name, default)
session_get(s, name, default) == Get(s, name, default)

\* strategy.session_set(name, value)
session_set(s, name, value) == Put(s, name, value)

-----------------------------------------------------------------------------
(* The record of a call *)

NoCall ==
    [op |-> "init", flow |-> "none", backend |-> "", data |-> EmptyDict,
     raised |-> "none", ret |-> None, before |-> EmptyDict,
     issued |-> <<>>, matched |-> <<>>, streak |-> <<>>,
     request_token_requests |-> 0, token_requests |-> 0,
     user_data_calls |-> 0, authenticated |-> 0, minted |-> 0,
     validate |-> "notcalled", state |-> None,
     exchange |-> "none", response |-> EmptyDict, names |-> <<>>]

-----------------------------------------------------------------------------
(* OAuthAuth *)

\* raw provider responses handed to extra_data
RawResponses ==
    Dicts([access_token |-> {"AT"}, email |-> {"", Falsy, "e"},
           name |-> {"", "n"}])

\* entries of EXTRA_DATA: name, (name, alias), (name, alias, discard), and
\* tuples of no and of four fields
ExtraDataEntries ==
    {<<n>> : n \in {"email", "name"}}
        \cup {<<n, a>> : n \in {"email", "name"}, a \in {"x", "access_token"}}
        \cup {<<n, a, d>> : n \in {"email", "name"}, a \in {"x", "access_token"},
                            d \in BOOLEAN}
        \cup {<<>>, <<"email", "x", TRUE, "more">>}

ExtraDataLists == UNION {[1..n -> ExtraDataEntries] : n \in 0..MaxEntries}

\* an entry stored whatever its discard flag says
StoreEntryAlways(data, entry, response) ==
    LET size == Len(entry)
        name == entry[1]
        alias == IF size = 1 THEN entry[1] ELSE entry[2]
    IN  IF size >= 1 /\ size <= 3
        THEN Put(data, alias, Get(response, name, None))
        ELSE data

\* the body of the for loop of extra_data
StoreEntry(data, entry, response) ==
    LET size == Len(entry)
        name == entry[1]
        alias == IF size = 1 THEN entry[1] ELSE entry[2]
        discard == IF size = 3 THEN entry[3] ELSE FALSE
        value == Get(response, name, None)
    IN  IF size >= 1 /\ size <= 3
        THEN IF discard /\ ~Truthy(value)
             THEN data
             ELSE Put(data, alias, value)
        ELSE data

RECURSIVE StoreEntries(_, _, _)
StoreEntries(data, names, response) ==
    IF names = <<>> THEN data
    ELSE StoreEntries(StoreEntry(data, Head(names), response), Tail(names),
                      response)

\* extra_data(user, uid, response) of a backend whose class attribute is
\* EXTRA_DATA (None reads as the empty list) and whose setting is setting
extra_data(response, EXTRA_DATA, setting) ==
    StoreEntries([access_token |-> Get(response, "access_token", "")],
                 EXTRA_DATA \o setting, response)

-----------------------------------------------------------------------------
(* BaseOAuth1 *)

\* BaseAuth.redirect_uri, fixed by the host
redirect_uri == "cb"

OAUTH_TOKEN_PARAMETER_NAME == "oauth_token"
REDIRECT_URI_PARAMETER_NAME == "redirect_uri"

\* the body of a request-token response
Tok(id, secret) ==
    << <<OAUTH_TOKEN_PARAMETER_NAME, id>>, <<"oauth_token_secret", secret>> >>

\* unauthed_token.get(token_param_name) of a stored entry
TokenId(token) == Get(parse_qs(token), OAUTH_TOKEN_PARAMETER_NAME, None)

ProviderTokens == {Tok(id, s) : id \in {"a"}, s \in Secrets}
                    \cup {Tok(id, "s") : id \in TokenIds \ {"a"}}
AttemptTokens == {Tok(id, "s") : id \in AttemptIds}

\* callbacks of the OAuth1 provider
OAuth1Callbacks ==
    Dicts([oauth_token |-> TokenIds, oauth_problem |-> {"user_refused", "other"}])

\* outcomes of the signed access-token request
OAuth1Exchanges == {"ok", "http400", "http500"}

\* one key for the pending tokens of every backend
TokensNameShared(name) == "unauthorized_token_name"

TokensName(name) == name \o "unauthorized_token_name"

\* urlencode(params): the key=value pairs of the dict, str() of every value
\* (the order of the keys is fixed here)
urlencode(params) ==
    LET order == <<"client_id", OAUTH_TOKEN_PARAMETER_NAME,
                   REDIRECT_URI_PARAMETER_NAME, "state", "response_type">>
        keys == SelectSeq(order, LAMBDA k : k \in DOMAIN params)
        str(v) == IF v = None THEN "None" ELSE v
    IN  [i \in DOMAIN keys |-> <<keys[i], str(params[keys[i]])>>]

oauth_authorization_request(token) ==
    LET parsed == parse_qs(token)
        params == [oauth_token |-> Get(parsed, OAUTH_TOKEN_PARAMETER_NAME, None),
                   redirect_uri |-> redirect_uri]
    IN  urlencode(params)

PrependToken(tokens, token) == <<token>> \o tokens

\* tokens = session_get(name, []) + [token]
AppendToken(tokens, token) == tokens \o <<token>>

OAuth1AuthUrl(b, token) ==
    LET name == TokensName(b)
        tokens == AppendToken(session_get(session, name, <<>>), token)
    IN  /\ session' = session_set(session, name, tokens)
        /\ last' = [NoCall EXCEPT
                      !.op = "auth_url", !.flow = "oauth1", !.backend = b,
                      !.before = session, !.issued = token,
                      !.request_token_requests = 1,
                      !.streak = IF last.op = "auth_url" /\ last.backend = b
                                    /\ last.flow = "oauth1"
                                 THEN Append(last.streak, token) ELSE <<token>>,
                      !.ret = oauth_authorization_request(token)]

process_error1(data) ==
    IF "oauth_problem" \in DOMAIN data
    THEN IF data["oauth_problem"] = "user_refused"
         THEN "AuthCanceled" ELSE "AuthUnknownError"
    ELSE "none"

FindAnyToken(unauthed_tokens, data_token) ==
    IF unauthed_tokens = <<>> THEN 0 ELSE 1

\* the for loop of auth_complete: index of the first entry whose token id
\* is data_token, 0 when the loop runs into its else branch
FindToken(unauthed_tokens, data_token) ==
    LET hits == {i \in DOMAIN unauthed_tokens :
                    TokenId(unauthed_tokens[i]) = data_token}
    IN  IF hits = {} THEN 0 ELSE CHOOSE i \in hits : \A j \in hits : i <= j

\* a session list written back as it was read
RemoveNothing(unauthed_tokens, orig_unauthed_token) == {unauthed_tokens}

\* list(set(unauthed_tokens) - set([orig_unauthed_token])): the lists the
\* expression may evaluate to
RemoveToken(unauthed_tokens, orig_unauthed_token) ==
    ListsOfSet(Range(unauthed_tokens) \ {orig_unauthed_token})

\* the callback's token id, "no-token" when the callback carries none
DataToken(data) == Get(data, OAUTH_TOKEN_PARAMETER_NAME, "no-token")

\* what the host's authenticator may do with {response, backend}: hand
\* back an identity, or fail
authenticate == {"user", "AuthenticateError"}

\* do_auth of either flow: user_data, then the authenticator, whose result
\* or error is the call's
do_auth(got) ==
    {IF outcome = "user"
     THEN [got EXCEPT !.user_data_calls = 1, !.authenticated = 1,
                      !.ret = "user"]
     ELSE [got EXCEPT !.user_data_calls = 1, !.authenticated = 1,
                      !.raised = outcome] : outcome \in authenticate}

\* an authenticator called before the outcome of the request is known
Finish1Eager(sent, exchange) ==
    CASE exchange = "http400" ->
            {[sent EXCEPT !.exchange = exchange, !.authenticated = 1,
                          !.raised = "AuthCanceled"]}
      [] exchange = "http500" ->
            {[sent EXCEPT !.exchange = exchange, !.authenticated = 1,
                          !.raised = "HTTPError"]}
      [] OTHER -> do_auth([sent EXCEPT !.exchange = exchange])

\* what auth_complete does with the outcome of access_token(token): the
\* except clause, do_auth
Finish1(sent, exchange) ==
    CASE exchange = "http400" ->
            {[sent EXCEPT !.exchange = exchange, !.raised = "AuthCanceled"]}
      [] exchange = "http500" ->
            {[sent EXCEPT !.exchange = exchange, !.raised = "HTTPError"]}
      [] OTHER -> do_auth([sent EXCEPT !.exchange = exchange])

\* an auth_complete that looks for the provider's error once the pending
\* token is found
OAuth1AuthCompleteTokenFirst(b, data) ==
    LET name == TokensName(b)
        unauthed_tokens == session_get(session, name, <<>>)
        i == FindToken(unauthed_tokens, DataToken(data))
        call == [NoCall EXCEPT !.op = "auth_complete", !.flow = "oauth1",
                               !.backend = b, !.data = data, !.before = session]
    IN  IF unauthed_tokens = <<>> \/ i = 0
        THEN /\ last' = [call EXCEPT !.raised = "AuthTokenError"]
             /\ UNCHANGED session
        ELSE IF process_error1(data) # "none"
        THEN /\ last' = [call EXCEPT !.raised = process_error1(data)]
             /\ UNCHANGED session
        ELSE /\ \E rest \in RemoveToken(unauthed_tokens, unauthed_tokens[i]) :
                    session' = session_set(session, name, rest)
             /\ \E exchange \in OAuth1Exchanges :
                    last' \in Finish1([call EXCEPT !.matched = unauthed_tokens[i],
                                                    !.token_requests = 1],
                                       exchange)

OAuth1AuthComplete(b, data) ==
    LET name == TokensName(b)
        unauthed_tokens == session_get(session, name, <<>>)
        i == FindToken(unauthed_tokens, DataToken(data))
        call == [NoCall EXCEPT !.op = "auth_complete", !.flow = "oauth1",
                               !.backend = b, !.data = data, !.before = session]
    IN  IF process_error1(data) # "none"
        THEN /\ last' = [call EXCEPT !.raised = process_error1(data)]
             /\ UNCHANGED session
        ELSE IF unauthed_tokens = <<>>
        THEN /\ last' = [call EXCEPT !.raised = "AuthTokenError"]
             /\ UNCHANGED session
        ELSE IF i = 0
        THEN /\ last' = [call EXCEPT !.raised = "AuthTokenError"]
             /\ UNCHANGED session
        ELSE /\ \E rest \in RemoveToken(unauthed_tokens, unauthed_tokens[i]) :
                    session' = session_set(session, name, rest)
             /\ \E exchange \in OAuth1Exchanges :
                    last' \in Finish1([call EXCEPT !.matched = unauthed_tokens[i],
                                                    !.token_requests = 1],
                                       exchange)

-----------------------------------------------------------------------------
(* BaseOAuth2 *)

\* callbacks of the OAuth2 provider
OAuth2Callbacks ==
    Dicts([error |-> {"", "access_denied", "denied", "invalid_grant"},
           denied |-> {"1"},
           state |-> {""} \cup StateTokens,
           redirect_state |-> {""} \cup StateTokens])

\* bodies of a token-endpoint response
TokenResponses ==
    Dicts([access_token |-> {"AT"},
           error |-> {"", "access_denied", "invalid_grant"},
           denied |-> {"1"}])

\* outcomes of request_access_token: an HTTPError, a KeyError raised while
\* the response is read, or a parsed body
OAuth2Exchanges ==
    {[kind |-> k, body |-> EmptyDict] : k \in {"http400", "http500", "keyerror"}}
        \cup {[kind |-> "response", body |-> r] : r \in TokenResponses}

StateName(name) == name \o "_state"

\* url_add_parameters(uri, {'redirect_state': state})
get_redirect_uri(c, state) ==
    IF c.REDIRECT_STATE /\ Truthy(state)
    THEN redirect_uri \o "?redirect_state=" \o state
    ELSE redirect_uri

auth_params(c, state) ==
    LET params == [client_id |-> "id", redirect_uri |-> get_redirect_uri(c, state)]
        with_state == IF c.STATE_PARAMETER /\ Truthy(state)
                      THEN Put(params, "state", state) ELSE params
    IN  Put(with_state, "response_type", "code")

MintAlways(state) == TRUE

\* the condition under which auth_url writes the state slot
MustMint(state) == state = None

OAuth2AuthUrl(b, token) ==
    LET c == conf[b]
        name == StateName(b)
        csrf == c.STATE_PARAMETER \/ c.REDIRECT_STATE
        stored == session_get(session, name, None)
        mint == csrf /\ MustMint(stored)
        state == IF ~csrf THEN None ELSE IF mint THEN token ELSE stored
    IN  /\ session' = IF mint THEN session_set(session, name, state) ELSE session
        /\ last' = [NoCall EXCEPT
                      !.op = "auth_url", !.flow = "oauth2", !.backend = b,
                      !.before = session, !.minted = IF mint THEN 1 ELSE 0,
                      !.state = state,
                      !.ret = urlencode(auth_params(c, state))]

\* validate_state reading redirect_state before state
validate_state_redirect_first(c, s, b, data) ==
    LET state == session_get(s, StateName(b), None)
        request_state == PyOr(Get(data, "redirect_state", None), Get(data, "state", None))
    IN  IF ~c.STATE_PARAMETER /\ ~c.REDIRECT_STATE
        THEN [raised |-> "none", ret |-> None]
        ELSE IF Truthy(state)
        THEN IF ~Truthy(request_state)
             THEN [raised |-> "AuthMissingParameter", ret |-> None]
             ELSE IF ~(request_state = state)
             THEN [raised |-> "AuthStateForbidden", ret |-> None]
             ELSE [raised |-> "none", ret |-> state]
        ELSE [raised |-> "none", ret |-> state]

\* validate_state without the comparison of the two values
validate_state_uncompared(c, s, b, data) ==
    LET state == session_get(s, StateName(b), None)
        request_state == PyOr(Get(data, "state", None), Get(data, "redirect_state", None))
    IN  IF ~c.STATE_PARAMETER /\ ~c.REDIRECT_STATE
        THEN [raised |-> "none", ret |-> None]
        ELSE IF Truthy(state)
        THEN IF ~Truthy(request_state)
             THEN [raised |-> "AuthMissingParameter", ret |-> None]
             ELSE [raised |-> "none", ret |-> state]
        ELSE [raised |-> "none", ret |-> state]

\* validate_state without the test of the two class attributes
validate_state_unconditional(c, s, b, data) ==
    LET state == session_get(s, StateName(b), None)
        request_state == PyOr(Get(data, "state", None), Get(data, "redirect_state", None))
    IN  IF Truthy(state)
        THEN IF ~Truthy(request_state)
             THEN [raised |-> "AuthMissingParameter", ret |-> None]
             ELSE IF ~(request_state = state)
             THEN [raised |-> "AuthStateForbidden", ret |-> None]
             ELSE [raised |-> "none", ret |-> state]
        ELSE [raised |-> "none", ret |-> state]

\* [raised, ret] of validate_state()
validate_state(c, s, b, data) ==
    LET state == session_get(s, StateName(b), None)
        request_state == PyOr(Get(data, "state", None), Get(data, "redirect_state", None))
    IN  IF ~c.STATE_PARAMETER /\ ~c.REDIRECT_STATE
        THEN [raised |-> "none", ret |-> None]
        ELSE IF Truthy(state)
        THEN IF ~Truthy(request_state)
             THEN [raised |-> "AuthMissingParameter", ret |-> None]
             ELSE IF ~Truthy(state)
             THEN [raised |-> "AuthStateMissing", ret |-> None]
             ELSE IF ~(request_state = state)
             THEN [raised |-> "AuthStateForbidden", ret |-> None]
             ELSE [raised |-> "none", ret |-> state]
        ELSE [raised |-> "none", ret |-> state]

OAuth2ValidateState(b, data) ==
    LET v == validate_state(conf[b], session, b, data)
    IN  /\ last' = [NoCall EXCEPT
                      !.op = "validate_state", !.flow = "oauth2", !.backend = b,
                      !.data = data, !.before = session,
                      !.validate = IF v.raised = "none" THEN "returned" ELSE "raised",
                      !.raised = v.raised, !.state = v.ret, !.ret = v.ret]
        /\ UNCHANGED session

\* process_error that knows access_denied alone as a cancellation
process_error2_access_denied(data) ==
    IF Truthy(Get(data, "error", None))
    THEN IF data["error"] = "access_denied"
         THEN "AuthCanceled" ELSE "AuthFailed"
    ELSE IF "denied" \in DOMAIN data
    THEN "AuthCanceled"
    ELSE "none"

process_error2(data) ==
    IF Truthy(Get(data, "error", None))
    THEN IF data["error"] = "denied" \/ data["error"] = "access_denied"
         THEN "AuthCanceled" ELSE "AuthFailed"
    ELSE IF "denied" \in DOMAIN data
    THEN "AuthCanceled"
    ELSE "none"

\* a token response that is handed on whatever it reports
HandleResponseUnchecked(got, response) ==
    IF "access_token" \notin DOMAIN response
    THEN {[got EXCEPT !.raised = "KeyError"]}
    ELSE do_auth(got)

\* what auth_complete does with the response of the token endpoint:
\* process_error(response), response['access_token'], do_auth
HandleResponse(got, response) ==
    IF process_error2(response) # "none"
    THEN {[got EXCEPT !.raised = process_error2(response)]}
    ELSE IF "access_token" \notin DOMAIN response
    THEN {[got EXCEPT !.raised = "KeyError"]}
    ELSE do_auth(got)

\* an except clause that takes every HTTPError for a cancellation
Finish2AnyStatus(sent, exchange) ==
    CASE exchange.kind \in {"http400", "http500"} ->
            {[sent EXCEPT !.exchange = exchange.kind, !.raised = "AuthCanceled"]}
      [] exchange.kind = "keyerror" ->
            {[sent EXCEPT !.exchange = exchange.kind, !.raised = "AuthUnknownError"]}
      [] OTHER ->
            HandleResponse([sent EXCEPT !.exchange = exchange.kind,
                                        !.response = exchange.body],
                           exchange.body)

\* what auth_complete does with the outcome of request_access_token:
\* the except clauses, then the response
Finish2(sent, exchange) ==
    CASE exchange.kind = "http400" ->
            {[sent EXCEPT !.exchange = exchange.kind, !.raised = "AuthCanceled"]}
      [] exchange.kind = "http500" ->
            {[sent EXCEPT !.exchange = exchange.kind, !.raised = "HTTPError"]}
      [] exchange.kind = "keyerror" ->
            {[sent EXCEPT !.exchange = exchange.kind, !.raised = "AuthUnknownError"]}
      [] OTHER ->
            HandleResponse([sent EXCEPT !.exchange = exchange.kind,
                                        !.response = exchange.body],
                           exchange.body)

\* an auth_complete that deletes the state it has validated
OAuth2AuthCompleteConsuming(b, data) ==
    LET v == validate_state(conf[b], session, b, data)
        call == [NoCall EXCEPT !.op = "auth_complete", !.flow = "oauth2",
                               !.backend = b, !.data = data, !.before = session]
    IN  IF process_error2(data) # "none"
        THEN /\ last' = [call EXCEPT !.raised = process_error2(data)]
             /\ UNCHANGED session
        ELSE IF v.raised # "none"
        THEN /\ last' = [call EXCEPT !.validate = "raised", !.raised = v.raised]
             /\ UNCHANGED session
        ELSE /\ session' = [k \in DOMAIN session \ {StateName(b)} |-> session[k]]
             /\ \E exchange \in OAuth2Exchanges :
                  last' \in Finish2([call EXCEPT !.validate = "returned",
                                                  !.state = v.ret,
                                                  !.token_requests = 1],
                                     exchange)

OAuth2AuthComplete(b, data) ==
    LET v == validate_state(conf[b], session, b, data)
        call == [NoCall EXCEPT !.op = "auth_complete", !.flow = "oauth2",
                               !.backend = b, !.data = data, !.before = session]
    IN  /\ UNCHANGED session
        /\ IF process_error2(data) # "none"
           THEN last' = [call EXCEPT !.raised = process_error2(data)]
           ELSE IF v.raised # "none"
           THEN last' = [call EXCEPT !.validate = "raised", !.raised = v.raised]
           ELSE \E exchange \in OAuth2Exchanges :
                  last' \in Finish2([call EXCEPT !.validate = "returned",
                                                  !.state = v.ret,
                                                  !.token_requests = 1],
                                     exchange)

-----------------------------------------------------------------------------
(* Specifications *)

ClassDefaults == [STATE_PARAMETER |-> TRUE, REDIRECT_STATE |-> TRUE]

\* a backend's class attributes, no call made, no attempt started
InitBackends ==
    /\ conf \in [OAuth2Backends -> [STATE_PARAMETER : BOOLEAN, REDIRECT_STATE : BOOLEAN]]
    /\ last = NoCall
    /\ attempts = [i \in 1..MaxAttempts |->
                      [pc |-> "init", token |-> <<>>, raised |-> "none",
                       consumed |-> <<>>]]

Init ==
    /\ session = EmptyDict
    /\ InitBackends

PendingCount(B) ==
    LET n[S \in SUBSET B] ==
            IF S = {} THEN 0
            ELSE LET b == CHOOSE x \in S : TRUE
                 IN  Len(session_get(session, TokensName(b), <<>>)) + n[S \ {b}]
    IN  n[B]

AuthUrl1(B) ==
    /\ PendingCount(B) < MaxPending
    /\ \E b \in B, token \in ProviderTokens : OAuth1AuthUrl(b, token)
    /\ UNCHANGED <<conf, attempts>>

AuthComplete1(B) ==
    /\ \E b \in B, data \in OAuth1Callbacks : OAuth1AuthComplete(b, data)
    /\ UNCHANGED <<conf, attempts>>

AuthUrl2(B) ==
    /\ \E b \in B, token \in StateTokens : OAuth2AuthUrl(b, token)
    /\ UNCHANGED <<conf, attempts>>

ValidateState2(B) ==
    /\ \E b \in B, data \in OAuth2Callbacks : OAuth2ValidateState(b, data)
    /\ UNCHANGED <<conf, attempts>>

AuthComplete2(B) ==
    /\ \E b \in B, data \in OAuth2Callbacks : OAuth2AuthComplete(b, data)
    /\ UNCHANGED <<conf, attempts>>

\* One OAuth1 backend and one session.  The flow reads no OAuth2 class
\* attribute: they stay at the class defaults.
InitOAuth1 == Init /\ conf = [b \in OAuth2Backends |-> ClassDefaults]

OAuth1AuthUrlCall == AuthUrl1({"twitter"})
OAuth1AuthCompleteCall == AuthComplete1({"twitter"})

NextOAuth1 == OAuth1AuthUrlCall \/ OAuth1AuthCompleteCall

SpecOAuth1 == InitOAuth1 /\ [][NextOAuth1]_vars

\* One OAuth2 backend and one session, under every setting of the two
\* CSRF toggles.
InitOAuth2 == Init /\ conf["custom"] = ClassDefaults

OAuth2AuthUrlCall == AuthUrl2({"github"})
OAuth2ValidateStateCall == ValidateState2({"github"})
OAuth2AuthCompleteCall == AuthComplete2({"github"})

NextOAuth2 == OAuth2AuthUrlCall \/ OAuth2ValidateStateCall \/ OAuth2AuthCompleteCall

SpecOAuth2 == InitOAuth2 /\ [][NextOAuth2]_vars

\* Several OAuth1 attempts on one backend and one session.  The provider
\* issues every attempt a token id no other attempt holds, and redirects the
\* attempt back with that id.
AttemptBackend == "twitter"

IssuedIds == {TokenId(attempts[i].token) : i \in {j \in 1..MaxAttempts : attempts[j].pc # "init"}}

AttemptAuthUrl(i) ==
    /\ attempts[i].pc = "init"
    /\ \E token \in AttemptTokens :
          /\ TokenId(token) \notin IssuedIds
          /\ OAuth1AuthUrl(AttemptBackend, token)
          /\ attempts' = [attempts EXCEPT ![i].pc = "issued", ![i].token = token]
    /\ UNCHANGED conf

AttemptAuthComplete(i) ==
    /\ attempts[i].pc = "issued"
    /\ OAuth1AuthComplete(AttemptBackend, [oauth_token |-> TokenId(attempts[i].token)])
    /\ attempts' = [attempts EXCEPT ![i].pc = "done", ![i].raised = last'.raised,
                                    ![i].consumed = last'.matched]
    /\ UNCHANGED conf

AttemptsAuthUrl == \E i \in 1..MaxAttempts : AttemptAuthUrl(i)
AttemptsAuthComplete == \E i \in 1..MaxAttempts : AttemptAuthComplete(i)

NextAttempts == AttemptsAuthUrl \/ AttemptsAuthComplete

SpecAttempts == InitOAuth1 /\ [][NextAttempts]_vars

\* validate_state and auth_url on every content of the state slot: the
\* session store belongs to the host, and the slot may hold any string.
InitAnySlot ==
    /\ session \in {EmptyDict} \cup
            {[k \in {StateName("github")} |-> v] : v \in {""} \cup StateTokens}
    /\ InitBackends
    /\ conf["custom"] = ClassDefaults

NextSlots == OAuth2AuthUrlCall \/ OAuth2ValidateStateCall

SpecSlots == InitAnySlot /\ [][NextSlots]_vars

\* One session used by two OAuth1 and two OAuth2 backends, every toggle at
\* its class default.  Each OAuth1 provider issues its own request token.
SessionToken(b) == IF b = "twitter" THEN Tok("a", "s") ELSE Tok("b", "s")

SessionCallbacks ==
    Dicts([error |-> {"", "access_denied", "invalid_grant"},
           denied |-> {"1"},
           state |-> StateTokens])

SessionAuthUrl1 ==
    /\ PendingCount(OAuth1Backends) < MaxPending - 1
    /\ \E b \in OAuth1Backends : OAuth1AuthUrl(b, SessionToken(b))
    /\ UNCHANGED <<conf, attempts>>

SessionAuthComplete1 == AuthComplete1(OAuth1Backends)

SessionAuthUrl2 == AuthUrl2(OAuth2Backends)

SessionValidateState2 ==
    /\ \E b \in OAuth2Backends, data \in SessionCallbacks :
          OAuth2ValidateState(b, data)
    /\ UNCHANGED <<conf, attempts>>

SessionAuthComplete2 ==
    /\ \E b \in OAuth2Backends, data \in SessionCallbacks :
          OAuth2AuthComplete(b, data)
    /\ UNCHANGED <<conf, attempts>>

NextSession ==
    \/ SessionAuthUrl1 \/ SessionAuthComplete1
    \/ SessionAuthUrl2 \/ SessionValidateState2 \/ SessionAuthComplete2

SpecSession == InitOAuth1 /\ [][NextSession]_vars

\* extra_data called once on a raw response, under every EXTRA_DATA list
\* split between the class attribute and the setting.
ExtraData ==
    /\ last = NoCall
    /\ \E response \in RawResponses, names \in ExtraDataLists :
          \E k \in 0..Len(names) :
             last' = [NoCall EXCEPT
                        !.op = "extra_data", !.data = response,
                        !.before = session, !.names = names,
                        !.ret = extra_data(response, SubSeq(names, 1, k),
                                           SubSeq(names, k + 1, Len(names)))]
    /\ UNCHANGED <<session, conf, attempts>>

NextExtraData == ExtraData

SpecExtraData == InitOAuth1 /\ [][NextExtraData]_vars

\* process_error of either flow called on a mapping: a callback, or the
\* body of a token-endpoint response.
ProcessError1 ==
    /\ \E data \in OAuth1Callbacks :
          last' = [NoCall EXCEPT !.op = "process_error", !.flow = "oauth1",
                                 !.backend = "twitter", !.data = data,
                                 !.before = session,
                                 !.raised = process_error1(data)]
    /\ UNCHANGED <<session, conf, attempts>>

ProcessError2 ==
    /\ \E data \in OAuth2Callbacks \cup TokenResponses :
          last' = [NoCall EXCEPT !.op = "process_error", !.flow = "oauth2",
                                 !.backend = "github", !.data = data,
                                 !.before = session,
                                 !.raised = process_error2(data)]
    /\ UNCHANGED <<session, conf, attempts>>

NextErrors == ProcessError1 \/ ProcessError2

SpecErrors == InitOAuth1 /\ [][NextErrors]_vars

\* Every backend, every operation.
Next ==
    \/ AuthUrl1(OAuth1Backends) \/ AuthComplete1(OAuth1Backends)
    \/ AuthUrl2(OAuth2Backends) \/ ValidateState2(OAuth2Backends)
    \/ AuthComplete2(OAuth2Backends)
    \/ ProcessError1 \/ ProcessError2 \/ ExtraData

Spec == Init /\ [][Next]_vars

-----------------------------------------------------------------------------
(* Properties of the OAuth1 flow *)

Count(seq, x) == Cardinality({i \in DOMAIN seq : seq[i] = x})

IsOAuth1(op) == last.flow = "oauth1" /\ last.op = op

\* the pending-token list of the backend of the last call, before and after it
PendingBefore == session_get(last.before, TokensName(last.backend), <<>>)
PendingAfter == session_get(session, TokensName(last.backend), <<>>)

\* the callback names the token id of a pending entry
CallbackNamesPending ==
    /\ OAUTH_TOKEN_PARAMETER_NAME \in DOMAIN last.data
    /\ \E i \in DOMAIN PendingBefore :
            TokenId(PendingBefore[i]) = last.data[OAUTH_TOKEN_PARAMETER_NAME]

\* l minus one occurrence of m is r, as multisets
OneRemoved(l, m, r) ==
    /\ Len(r) = Len(l) - 1
    /\ \A x \in Range(l) \cup Range(r) :
            Count(r, x) = Count(l, x) - (IF x = m THEN 1 ELSE 0)

\* C1: an OAuth1 auth_complete whose callback (without oauth_problem) names
\* the token id of one of the N >= 1 pending entries leaves N-1 entries in
\* the session: one occurrence of the matched entry is gone, every other
\* entry, equal ones included, is still there.
C1_RemovesExactlyOne ==
    (IsOAuth1("auth_complete") /\ "oauth_problem" \notin DOMAIN last.data
        /\ CallbackNamesPending)
    => /\ Len(PendingAfter) = Len(PendingBefore) - 1
       /\ OneRemoved(PendingBefore, last.matched, PendingAfter)

\* the tokens of the attempts whose callback is still to come
OutstandingTokens == {attempts[i].token : i \in {j \in 1..MaxAttempts : attempts[j].pc = "issued"}}

AttemptList == session_get(session, TokensName(AttemptBackend), <<>>)

\* C2: concurrent attempts with distinct token ids, in every interleaving of
\* their calls: a completed attempt consumed its own entry and did not fail
\* with AuthTokenError, the list holds exactly the entries of the attempts
\* still outstanding, and it is empty once every attempt has completed.
C2_NoCrossConsumption ==
    /\ \A i \in 1..MaxAttempts :
          attempts[i].pc = "done" =>
              /\ attempts[i].raised # "AuthTokenError"
              /\ attempts[i].consumed = attempts[i].token
    /\ Range(AttemptList) = OutstandingTokens
    /\ Len(AttemptList) = Cardinality(OutstandingTokens)
    /\ (\A i \in 1..MaxAttempts : attempts[i].pc = "done") => AttemptList = <<>>

\* an attempt completes while an attempt that started before it is pending
C2_Witness ==
    \E i, j \in 1..MaxAttempts :
        /\ attempts[i].pc = "done" /\ attempts[j].pc = "issued"
        /\ IsOAuth1("auth_complete") /\ last.matched = attempts[i].token
        /\ Len(PendingBefore) >= 2
        /\ PendingBefore[1] = attempts[j].token
        /\ AttemptList = <<attempts[j].token>>

\* C3: OAuth1 auth_url appends the token just issued to the end of the
\* pending list and leaves the earlier entries in place; after k auth_url
\* calls in a row the list ends with the k tokens they were issued, in
\* order; the URL returned carries the token id of the appended entry.
C3_AuthUrlAppends ==
    IsOAuth1("auth_url") =>
        LET k == Len(last.streak)
            n == Len(PendingAfter)
        IN  /\ last.raised = "none"
            /\ PendingAfter = Append(PendingBefore, last.issued)
            /\ k >= 1 /\ k <= n
            /\ SubSeq(PendingAfter, n - k + 1, n) = last.streak
            /\ Get(parse_qs(last.ret), OAUTH_TOKEN_PARAMETER_NAME, None)
                    = TokenId(PendingAfter[n])

\* the second of two auth_url calls in a row, on a list that held an entry
\* before them
C3_Witness ==
    /\ IsOAuth1("auth_url")
    /\ Len(last.streak) = 2
    /\ Len(PendingAfter) = 3
    /\ PendingAfter[2] # PendingAfter[3]

\* C4: an OAuth1 auth_complete whose callback carries no oauth_problem and
\* names the token id of no pending entry (the list may be empty or absent,
\* the callback may carry no token id) raises AuthTokenError, sends no
\* access-token request, does not call the authenticator and leaves the
\* pending list as it was.
C4_NoMatchIsTokenError ==
    (IsOAuth1("auth_complete") /\ "oauth_problem" \notin DOMAIN last.data
        /\ ~CallbackNamesPending)
    => /\ last.raised = "AuthTokenError"
       /\ last.token_requests = 0
       /\ last.authenticated = 0
       /\ session = last.before

-----------------------------------------------------------------------------
(* Properties of the OAuth2 flow *)

IsOAuth2(op) == last.flow = "oauth2" /\ last.op = op

\* CSRF protection is enabled for the backend of the last call
Csrf == conf[last.backend].STATE_PARAMETER \/ conf[last.backend].REDIRECT_STATE

\* the state slot of the backend of the last call, before and after it
SlotBefore == session_get(last.before, StateName(last.backend), None)
SlotAfter == session_get(session, StateName(last.backend), None)

CallbackState == Get(last.data, "state", None)
CallbackRedirectState == Get(last.data, "redirect_state", None)

\* the value the callback supplies: state, and redirect_state when state is
\* absent or empty
Supplied ==
    IF CallbackState # None /\ CallbackState # ""
    THEN CallbackState ELSE CallbackRedirectState

\* the callback carries neither a non-empty error nor a denied key
NoErrorSignal ==
    /\ ("error" \in DOMAIN last.data => last.data["error"] = "")
    /\ "denied" \notin DOMAIN last.data

StoredState == SlotBefore # None /\ SlotBefore # ""

\* C5 as stated: with CSRF protection enabled, a callback that echoes the
\* stored state in its state or its redirect_state parameter passes
\* validate_state, which returns the stored value, and auth_complete goes
\* on to the token exchange.
C5_EchoValidates ==
    (last.flow = "oauth2" /\ Csrf /\ StoredState
        /\ (CallbackState = SlotBefore \/ CallbackRedirectState = SlotBefore))
    => /\ last.op = "validate_state" =>
              last.raised = "none" /\ last.ret = SlotBefore
       /\ last.op = "auth_complete" =>
              last.validate = "returned" /\ last.token_requests = 1

\* C5 amended: with CSRF protection enabled, when the value the callback
\* supplies (its state parameter or, when that is absent or empty, its
\* redirect_state parameter) is the stored state, validate_state returns the
\* stored value without error, and auth_complete, on a callback without
\* provider error signal, goes on to the token exchange.
C5_EchoValidatesAmended ==
    (last.flow = "oauth2" /\ Csrf /\ StoredState /\ Supplied = SlotBefore)
    => /\ last.op = "validate_state" =>
              last.raised = "none" /\ last.ret = SlotBefore
       /\ (last.op = "auth_complete" /\ NoErrorSignal) =>
              /\ last.validate = "returned" /\ last.state = SlotBefore
              /\ last.token_requests = 1

\* the callback echoes the state in both parameters and the exchange is made
C5_Witness ==
    /\ IsOAuth2("auth_complete") /\ Csrf /\ StoredState
    /\ CallbackState = SlotBefore /\ CallbackRedirectState = SlotBefore
    /\ last.token_requests = 1 /\ last.state = SlotBefore
    /\ last.authenticated = 1

NothingSent == last.token_requests = 0 /\ last.authenticated = 0

\* C6 as stated: with CSRF protection enabled and a state stored, an
\* auth_complete whose callback supplies neither state nor redirect_state
\* raises AuthMissingParameter, one whose supplied value differs from the
\* stored state raises AuthStateForbidden, and neither sends a token request
\* or calls the authenticator.
C6_BadStateRejected ==
    (IsOAuth2("auth_complete") /\ Csrf /\ StoredState)
    => /\ ("state" \notin DOMAIN last.data /\ "redirect_state" \notin DOMAIN last.data)
            => last.raised = "AuthMissingParameter" /\ NothingSent
       /\ (Supplied # None /\ Supplied # "" /\ Supplied # SlotBefore)
            => last.raised = "AuthStateForbidden" /\ NothingSent

\* C6 amended: the same for validate_state on every callback, and for
\* auth_complete on every callback without provider error signal; a
\* callback supplies no value when state and redirect_state are absent or
\* empty.
C6_BadStateRejectedAmended ==
    (last.flow = "oauth2" /\ Csrf /\ StoredState
        /\ (last.op = "validate_state" \/ (last.op = "auth_complete" /\ NoErrorSignal)))
    => /\ (Supplied = None \/ Supplied = "")
            => last.raised = "AuthMissingParameter" /\ NothingSent
       /\ (Supplied # None /\ Supplied # "" /\ Supplied # SlotBefore)
            => last.raised = "AuthStateForbidden" /\ NothingSent

\* an auth_complete rejected for a state that is not the stored one
C6_Witness ==
    /\ IsOAuth2("auth_complete") /\ Csrf /\ StoredState /\ NoErrorSignal
    /\ CallbackState \in StateTokens /\ CallbackState # SlotBefore
    /\ last.raised = "AuthStateForbidden"

\* C7: with CSRF protection enabled, validate_state raises AuthStateMissing
\* whenever the stored state is absent or empty.
C7_MissingStateRaises ==
    ((IsOAuth2("validate_state") \/ (IsOAuth2("auth_complete") /\ NoErrorSignal))
        /\ Csrf /\ ~StoredState)
    => last.raised = "AuthStateMissing"

UrlParams == parse_qs(last.ret)

\* the URL returned carries v wherever the class attributes ask for it
UrlCarries(v) ==
    /\ conf[last.backend].STATE_PARAMETER => Get(UrlParams, "state", None) = v
    /\ conf[last.backend].REDIRECT_STATE =>
            Get(UrlParams, "redirect_uri", None) = redirect_uri \o "?redirect_state=" \o v

\* C8: with CSRF protection enabled, auth_url mints and stores a state only
\* when the slot is absent; every later call leaves the slot as the first
\* call set it, mints nothing, and returns a URL carrying that value.
C8_StateMintedOnce ==
    (IsOAuth2("auth_url") /\ Csrf)
    => IF SlotBefore = None
       THEN /\ last.minted = 1
            /\ SlotAfter \in StateTokens
            /\ UrlCarries(SlotAfter)
       ELSE /\ last.minted = 0
            /\ session = last.before
            /\ UrlCarries(SlotBefore)

\* an auth_url call on a slot that an earlier call filled
C8_Witness ==
    /\ IsOAuth2("auth_url") /\ Csrf
    /\ SlotBefore \in StateTokens /\ SlotAfter = SlotBefore
    /\ last.minted = 0 /\ last.state = SlotBefore

\* C9: with both CSRF toggles off, validate_state returns None and raises
\* nothing whatever the slot and the callback hold, and auth_url leaves the
\* session alone, mints nothing and puts no state into the URL.
C9_NoCsrfNoState ==
    (last.flow = "oauth2" /\ ~Csrf)
    => /\ last.op = "validate_state" => last.raised = "none" /\ last.ret = None
       /\ last.op = "auth_url" =>
              /\ session = last.before
              /\ last.minted = 0
              /\ "state" \notin DOMAIN UrlParams
              /\ Get(UrlParams, "redirect_uri", None) = redirect_uri

\* validate_state with the toggles off, on a slot and a callback that
\* disagree
C9_Witness ==
    /\ IsOAuth2("validate_state") /\ ~Csrf
    /\ SlotBefore \in StateTokens
    /\ CallbackState \in StateTokens /\ CallbackState # SlotBefore
    /\ last.raised = "none" /\ last.ret = None

\* C10: an auth_complete whose token-endpoint response arrives without
\* transport error, reports no error and lacks access_token raises
\* AuthUnknownError without calling the authenticator.
C10_MissingFieldIsUnknownError ==
    (IsOAuth2("auth_complete") /\ last.exchange = "response"
        /\ "access_token" \notin DOMAIN last.response
        /\ ~Truthy(Get(last.response, "error", None))
        /\ "denied" \notin DOMAIN last.response)
    => last.raised = "AuthUnknownError" /\ last.authenticated = 0

-----------------------------------------------------------------------------
(* Properties of process_error *)

\* C11: process_error of OAuth1 raises AuthCanceled for oauth_problem
\* user_refused, AuthUnknownError for any other oauth_problem, nothing
\* without the key; process_error of OAuth2 raises AuthCanceled for a
\* non-empty error denied or access_denied, AuthFailed for any other
\* non-empty error, AuthCanceled for a denied key beside an absent or empty
\* error, and nothing otherwise.
C11_ErrorClassification ==
    last.op = "process_error" =>
        LET d == last.data
            has(k) == k \in DOMAIN d
            error == has("error") /\ d["error"] # ""
        IN  /\ last.flow = "oauth1" =>
                /\ (has("oauth_problem") /\ d["oauth_problem"] = "user_refused")
                        => last.raised = "AuthCanceled"
                /\ (has("oauth_problem") /\ d["oauth_problem"] # "user_refused")
                        => last.raised = "AuthUnknownError"
                /\ ~has("oauth_problem") => last.raised = "none"
            /\ last.flow = "oauth2" =>
                /\ (error /\ d["error"] \in {"denied", "access_denied"})
                        => last.raised = "AuthCanceled"
                /\ (error /\ d["error"] \notin {"denied", "access_denied"})
                        => last.raised = "AuthFailed"
                /\ (~error /\ has("denied")) => last.raised = "AuthCanceled"
                /\ (~error /\ ~has("denied")) => last.raised = "none"

\* an error equal to denied, beside other parameters
C11_Witness ==
    /\ last.op = "process_error" /\ last.flow = "oauth2"
    /\ "error" \in DOMAIN last.data /\ last.data["error"] = "denied"
    /\ "denied" \notin DOMAIN last.data
    /\ last.raised = "AuthCanceled"

-----------------------------------------------------------------------------
(* Properties of both flows *)

\* C12: in both flows an access-token request that fails with HTTP status
\* 400 makes auth_complete raise AuthCanceled, one that fails with another
\* status leaves auth_complete with that HTTPError, and in neither case is
\* the authenticator called.
C12_TransportFailures ==
    (last.op = "auth_complete" /\ last.token_requests = 1)
    => /\ last.exchange = "http400" =>
              last.raised = "AuthCanceled" /\ last.authenticated = 0
       /\ last.exchange = "http500" =>
              last.raised = "HTTPError" /\ last.authenticated = 0

\* the token endpoint of an OAuth2 provider answers with status 500
C12_Witness ==
    /\ last.op = "auth_complete" /\ last.flow = "oauth2"
    /\ last.token_requests = 1 /\ last.exchange = "http500"
    /\ last.raised = "HTTPError" /\ last.authenticated = 0

\* the access-token exchange of the last call succeeded: the request was
\* sent and answered, and an OAuth2 answer reports no error and carries an
\* access token
ExchangeSucceeded ==
    /\ last.token_requests = 1
    /\ \/ last.flow = "oauth1" /\ last.exchange = "ok"
       \/ /\ last.flow = "oauth2" /\ last.exchange = "response"
          /\ Get(last.response, "error", "") = ""
          /\ "denied" \notin DOMAIN last.response
          /\ "access_token" \in DOMAIN last.response

\* C13 as stated: in both flows the authenticator is called exactly once in
\* every auth_complete that completes, only after the access-token exchange
\* of that call has succeeded, and zero times in every auth_complete that
\* fails with any error.
C13_AuthenticatorOnce ==
    last.op = "auth_complete"
    => /\ last.raised = "none" => last.authenticated = 1 /\ ExchangeSucceeded
       /\ last.raised # "none" => last.authenticated = 0

\* C13 amended: in both flows the authenticator is called exactly once in
\* every auth_complete that completes, and at most once in any call, only
\* after the access-token exchange of that call has succeeded; it is called
\* zero times in every auth_complete that fails with an error other than the
\* authenticator's own, and exactly once in a call that fails with the
\* authenticator's error.
C13_AuthenticatorOnceAmended ==
    last.op = "auth_complete"
    => /\ last.raised = "none" => last.authenticated = 1
       /\ last.authenticated \in {0, 1}
       /\ last.authenticated = 1 => ExchangeSucceeded
       /\ last.raised \notin {"none"} \cup (authenticate \ {"user"})
            => last.authenticated = 0
       /\ last.raised \in authenticate \ {"user"} => last.authenticated = 1

\* the exchange succeeds and the authenticator, called once, fails
C13_Witness ==
    /\ last.op = "auth_complete" /\ last.flow = "oauth2"
    /\ ExchangeSucceeded
    /\ last.authenticated = 1 /\ last.raised = "AuthenticateError"

\* the session keys derived from a backend's identifier
OwnKeys(b) == {TokensName(b), StateName(b)}

\* C14: every auth_url, validate_state and auth_complete of one backend
\* leaves the pending-token list and the state slot of every backend with
\* another identifier as they were, present or absent, and the session
\* holds no key but those derived from the identifiers of its backends.
C14_BackendScoped ==
    /\ DOMAIN session \subseteq
            UNION {OwnKeys(b) : b \in OAuth1Backends \cup OAuth2Backends}
    /\ last.op \in {"auth_url", "validate_state", "auth_complete"} =>
          \A other \in (OAuth1Backends \cup OAuth2Backends) \ {last.backend} :
             \A k \in OwnKeys(other) :
                /\ k \in DOMAIN session <=> k \in DOMAIN last.before
                /\ k \in DOMAIN session => session[k] = last.before[k]

\* a callback of one OAuth1 backend consumes its pending token while the
\* other OAuth1 backend has a pending token and an OAuth2 backend a stored
\* state
C14_Witness ==
    /\ last.op = "auth_complete" /\ last.backend = "twitter"
    /\ last.token_requests = 1
    /\ session_get(session, TokensName("twitter"), <<>>)
          # session_get(last.before, TokensName("twitter"), <<>>)
    /\ session_get(session, TokensName("flickr"), <<>>) # <<>>
    /\ session_get(session, StateName("github"), None) \in StateTokens

\* the callback carries the provider error signal of its flow
ErrorSignal ==
    \/ last.flow = "oauth1" /\ "oauth_problem" \in DOMAIN last.data
    \/ /\ last.flow = "oauth2"
       /\ \/ Get(last.data, "error", "") # ""
          \/ "denied" \in DOMAIN last.data

\* the error the signal stands for
SignalledError ==
    IF last.flow = "oauth1"
    THEN IF last.data["oauth_problem"] = "user_refused"
         THEN "AuthCanceled" ELSE "AuthUnknownError"
    ELSE IF Get(last.data, "error", "") = ""
            \/ last.data["error"] \in {"denied", "access_denied"}
         THEN "AuthCanceled" ELSE "AuthFailed"

\* C16: in both flows an auth_complete whose callback carries a provider
\* error signal raises the error the signal stands for, whatever token or
\* state the callback names, sends no access-token request, does not check
\* the state, and leaves the session as it was.
C16_ProviderErrorFirst ==
    (last.op = "auth_complete" /\ ErrorSignal)
    => /\ last.raised = SignalledError
       /\ last.token_requests = 0
       /\ last.validate = "notcalled"
       /\ last.authenticated = 0
       /\ session = last.before

\* an OAuth2 callback reports an error and names a state other than the
\* stored one
C16_Witness ==
    /\ last.op = "auth_complete" /\ last.flow = "oauth2"
    /\ Get(last.data, "error", "") = "invalid_grant"
    /\ session_get(last.before, StateName(last.backend), None) \in StateTokens
    /\ Get(last.data, "state", None)
          \notin {None, session_get(last.before, StateName(last.backend), None)}
    /\ last.raised = "AuthFailed"

-----------------------------------------------------------------------------
(* Properties of extra_data *)

\* the entries of the last call that store under an alias, and the alias
Storing == {i \in DOMAIN last.names : Len(last.names[i]) \in 1..3}
AliasOf(entry) == IF Len(entry) = 1 THEN entry[1] ELSE entry[2]

\* no two entries share an alias and no alias is access_token
DistinctAliases ==
    /\ \A i, j \in Storing :
          AliasOf(last.names[i]) = AliasOf(last.names[j]) => i = j
    /\ \A i \in Storing : AliasOf(last.names[i]) # "access_token"

\* the result holds the response's access_token, "" if it has none; and
\* for every entry (name, alias, discard): with discard set and the
\* response's value for name empty (the empty string or another false
\* value) or absent the alias is no key of the result, and otherwise the
\* alias maps to the response's value for name, to None if it has none
ExtraDataAsSpecified ==
    /\ "access_token" \in DOMAIN last.ret
    /\ last.ret["access_token"] =
          (IF "access_token" \in DOMAIN last.data
           THEN last.data["access_token"] ELSE "")
    /\ \A i \in DOMAIN last.names :
          LET entry == last.names[i]
          IN  Len(entry) = 3 =>
                LET absent == entry[1] \notin DOMAIN last.data
                    empty == absent \/ last.data[entry[1]] \in {"", Falsy}
                IN  IF entry[3] /\ empty
                    THEN entry[2] \notin DOMAIN last.ret
                    ELSE /\ entry[2] \in DOMAIN last.ret
                         /\ last.ret[entry[2]] =
                               (IF absent THEN None ELSE last.data[entry[1]])

\* C15 as stated: extra_data is as specified for every raw response and
\* every extra-data spec.
C15_ExtraData == last.op = "extra_data" => ExtraDataAsSpecified

\* C15 amended: extra_data is as specified for every raw response and every
\* extra-data spec in which no two entries share an alias and no alias is
\* access_token.
C15_ExtraDataAmended ==
    (last.op = "extra_data" /\ DistinctAliases) => ExtraDataAsSpecified

\* one entry is discarded for an empty value while another is stored
C15_Witness ==
    /\ last.op = "extra_data" /\ DistinctAliases
    /\ \E i, j \in DOMAIN last.names :
          /\ Len(last.names[i]) = 3 /\ last.names[i][3]
          /\ Get(last.data, last.names[i][1], "") = ""
          /\ last.names[i][2] \notin DOMAIN last.ret
          /\ j \in Storing
          /\ AliasOf(last.names[j]) \in DOMAIN last.ret
          /\ last.ret[AliasOf(last.names[j])] = "n"

-----------------------------------------------------------------------------
(* Properties of the OAuth2 token response and state slot *)

\* C17: an OAuth2 auth_complete whose access-token request is answered
\* without transport error by a response with a non-empty error or a denied
\* key raises AuthCanceled (error denied or access_denied, or a denied key
\* beside no error) or AuthFailed (any other error), fetches no user data
\* and does not call the authenticator, access_token in the response or not.
C17_ResponseErrorChecked ==
    (IsOAuth2("auth_complete") /\ last.exchange = "response"
        /\ (Get(last.response, "error", "") # ""
               \/ "denied" \in DOMAIN last.response))
    => /\ last.raised =
            (IF Get(last.response, "error", "") = ""
                \/ last.response["error"] \in {"denied", "access_denied"}
             THEN "AuthCanceled" ELSE "AuthFailed")
       /\ last.user_data_calls = 0
       /\ last.authenticated = 0

\* the response carries an access token and reports invalid_grant
C17_Witness ==
    /\ IsOAuth2("auth_complete") /\ last.exchange = "response"
    /\ "access_token" \in DOMAIN last.response
    /\ Get(last.response, "error", "") = "invalid_grant"
    /\ last.raised = "AuthFailed" /\ last.authenticated = 0

\* C18: an OAuth2 auth_complete, raising or not, leaves the session and so
\* the backend's state slot as it was; with CSRF protection enabled and a
\* state stored, the auth_url that follows mints nothing and returns a URL
\* carrying the stored state, and the validate_state or auth_complete that
\* follows with a callback supplying that state (and no error signal)
\* validates it.
C18_SlotKept ==
    /\ [](IsOAuth2("auth_complete") => session = last.before)
    /\ [][(IsOAuth2("auth_complete") /\ Csrf /\ StoredState)
            => /\ IsOAuth2("auth_url")' =>
                    /\ last'.minted = 0
                    /\ SlotAfter' = SlotBefore
                    /\ UrlCarries(SlotBefore)'
               /\ (IsOAuth2("validate_state")' /\ Supplied' = SlotBefore) =>
                    last'.raised = "none" /\ last'.ret = SlotBefore
               /\ (IsOAuth2("auth_complete")' /\ Supplied' = SlotBefore
                        /\ NoErrorSignal') =>
                    /\ last'.validate = "returned" /\ last'.state = SlotBefore
                    /\ last'.token_requests = 1]_vars

\* a flow completes with the authenticator's identity and its state is
\* still in the slot
C18_Witness ==
    /\ IsOAuth2("auth_complete") /\ Csrf /\ StoredState
    /\ last.raised = "none" /\ last.ret = "user"
    /\ SlotAfter = SlotBefore

\* C19: with CSRF protection enabled, an OAuth2 auth_complete sends the
\* token-endpoint request only if a state is stored in the backend's slot
\* (auth_url alone stores one) and the callback's state, or redirect_state,
\* equals it; a callback arriving before any auth_url sends none.
C19_ExchangeNeedsStoredState ==
    (IsOAuth2("auth_complete") /\ Csrf /\ last.token_requests = 1)
    => StoredState /\ Supplied = SlotBefore

-----------------------------------------------------------------------------
(* Properties of the OAuth1 pending list across calls *)

\* the last call, an OAuth1 auth_complete, sent the access-token request
ReachedExchange == IsOAuth1("auth_complete") /\ last.token_requests = 1

\* the matched entry is gone from the session list, whatever came of the
\* access-token request, and the call added no entry
MatchedRemoved ==
    ReachedExchange
    => /\ last.matched \notin Range(PendingAfter)
       /\ Range(PendingAfter) \subseteq Range(PendingBefore)

\* the matched entry was the only pending entry with its token id
OnlyEntryOfItsId ==
    \A i \in DOMAIN PendingBefore :
        TokenId(PendingBefore[i]) = TokenId(last.matched)
            => PendingBefore[i] = last.matched

\* C20 as stated: an auth_complete that reached the exchange has removed the
\* matched entry, and the auth_complete that follows it with the same
\* callback token id (and, as the first, no oauth_problem), no auth_url
\* between, raises AuthTokenError.
C20_SingleUse ==
    /\ []MatchedRemoved
    /\ [][(ReachedExchange /\ IsOAuth1("auth_complete")'
              /\ DataToken(last'.data) = DataToken(last.data)
              /\ "oauth_problem" \notin DOMAIN last'.data)
            => last'.raised = "AuthTokenError"]_vars

\* C20 amended: an auth_complete that reached the exchange has removed the
\* matched entry; when that entry was the only pending one with its token
\* id, the auth_complete that follows it with the same callback token id and
\* no oauth_problem, no auth_url between, raises AuthTokenError and sends no
\* request.
C20_SingleUseAmended ==
    /\ []MatchedRemoved
    /\ [][(ReachedExchange /\ OnlyEntryOfItsId
              /\ IsOAuth1("auth_complete")'
              /\ DataToken(last'.data) = DataToken(last.data)
              /\ "oauth_problem" \notin DOMAIN last'.data)
            => /\ last'.raised = "AuthTokenError"
               /\ last'.token_requests = 0
               /\ session' = session]_vars

\* the access-token request fails and the matched entry is gone while
\* other entries stay pending
C20_Witness ==
    /\ ReachedExchange /\ OnlyEntryOfItsId
    /\ last.exchange = "http500" /\ last.raised = "HTTPError"
    /\ last.matched \notin Range(PendingAfter)
    /\ PendingAfter # <<>>

====
